---- MODULE Spec2Model ----
(***************************************************************************)
(* Model of script/readme_generator/generate_supported_compilers.py.       *)
(*                                                                         *)
(* Text that the program measures, pads, splits or strips is a sequence of *)
(* one-character strings, so that len(), str.format padding, split("\n")   *)
(* and rstrip() are computed character by character.  Dictionary keys that *)
(* are only looked up (backend identifiers, "state", "comment", the state  *)
(* names) are TLA+ strings.  A Python dict is the sequence of its          *)
(* [key, value] items in insertion order, keys unique.                     *)
(***************************************************************************)
EXTENDS Integers, Sequences, FiniteSets, TLC

(***************************************************************************)
(* Bounds of the explored inputs.                                          *)
(***************************************************************************)
MaxCompilers == 2
MaxTrailing == 1

(***************************************************************************)
(* Generic helpers: Python built-ins used by the script.                   *)
(***************************************************************************)
Range(s) == {s[i] : i \in DOMAIN s}

max(a, b) == IF a >= b THEN a ELSE b

\* k * "c"
Repeat(c, k) == [i \in 1..k |-> c]

\* f"{s:<{w}}": left-justify, pad with spaces, never truncate
Ljust(s, w) == IF Len(s) >= w THEN s ELSE s \o Repeat(" ", w - Len(s))

Reverse(s) == [k \in DOMAIN s |-> s[Len(s) + 1 - k]]

\* key in d
HasKey(d, k) == \E i \in DOMAIN d : d[i].key = k

\* d[key]
Get(d, k) == d[CHOOSE i \in DOMAIN d : d[i].key = k].value

\* str.split("\n"): the pieces between consecutive newlines, including the
\* (possibly empty) piece after the last newline
Split(s, sep) ==
    LET pos == {i \in 1..Len(s) : s[i] = sep}
        cut(k) == IF k = 0 THEN 0
                  ELSE IF k = Cardinality(pos) + 1 THEN Len(s) + 1
                  ELSE CHOOSE p \in pos : Cardinality({q \in pos : q <= p}) = k
    IN  [k \in 1..(Cardinality(pos) + 1) |-> SubSeq(s, cut(k - 1) + 1, cut(k) - 1)]

\* characters removed by str.rstrip() among those the model's documents use
Whitespace == {" ", "\t", "\n", "\r"}

\* str.rstrip()
Rstrip(s) ==
    LET keep == {i \in 1..Len(s) : s[i] \notin Whitespace}
        last == IF keep = {} THEN 0 ELSE CHOOSE i \in keep : \A j \in keep : j <= i
    IN  SubSeq(s, 1, last)

(***************************************************************************)
(* The fixed schema.                                                       *)
(***************************************************************************)
get_expected_config_entries ==
    << [name |-> "serial",    representation |-> <<"S","e","r","i","a","l">>],
       [name |-> "OMPblock",  representation |-> <<"O","p","e","n","M","P"," ","2",".","0","+"," ","b","l","o","c","k","s">>],
       [name |-> "OMPthread", representation |-> <<"O","p","e","n","M","P"," ","2",".","0","+"," ","t","h","r","e","a","d","s">>],
       [name |-> "thread",    representation |-> <<"s","t","d",":",":","t","h","r","e","a","d">>],
       [name |-> "tbb",       representation |-> <<"T","B","B">>],
       [name |-> "CUDAnvcc",  representation |-> <<"C","U","D","A"," ","(","n","v","c","c",")">>],
       [name |-> "CUDAclang", representation |-> <<"C","U","D","A"," ","(","c","l","a","n","g",")">>],
       [name |-> "hip",       representation |-> <<"H","I","P"," ","(","c","l","a","n","g",")">>],
       [name |-> "sycl",      representation |-> <<"S","Y","C","L">>] >>

get_expected_config_names ==
    [i \in DOMAIN get_expected_config_entries |-> get_expected_config_entries[i].name]

get_known_states ==
    [yes  |-> <<":","w","h","i","t","e","_","c","h","e","c","k","_","m","a","r","k",":">>,
     no   |-> <<":","x",":">>,
     none |-> <<"-">>]

get_known_state_names == DOMAIN get_known_states

AcceleratorBackend ==
    <<"A","c","c","e","l","e","r","a","t","o","r"," ","B","a","c","k","-","e","n","d">>

(***************************************************************************)
(* config_validator: the result and the message print_red received.        *)
(***************************************************************************)
Red(kind, args) == [red |-> TRUE, kind |-> kind, args |-> args]

Plain(kind, args) == [red |-> FALSE, kind |-> kind, args |-> args]

\* variant of check_entry that accepts any value of "state"
check_entry_any_state(compiler_name, compiler_conf, expected_entry) ==
    IF ~HasKey(compiler_conf, expected_entry)
    THEN <<Red("misses entry", <<compiler_name, expected_entry>>)>>
    ELSE IF "state" \notin DOMAIN Get(compiler_conf, expected_entry)
    THEN <<Red("misses state entry", <<compiler_name, expected_entry>>)>>
    ELSE <<>>

\* the three checks made for one (compiler, expected entry) pair, in the
\* order of the if statements; <<>> when the pair passes
check_entry(compiler_name, compiler_conf, expected_entry) ==
    IF ~HasKey(compiler_conf, expected_entry)
    THEN <<Red("misses entry", <<compiler_name, expected_entry>>)>>
    ELSE IF "state" \notin DOMAIN Get(compiler_conf, expected_entry)
    THEN <<Red("misses state entry", <<compiler_name, expected_entry>>)>>
    ELSE IF Get(compiler_conf, expected_entry).state \notin get_known_state_names
    THEN <<Red("unknown state",
               <<compiler_name, expected_entry, Get(compiler_conf, expected_entry).state>>)>>
    ELSE <<>>

RECURSIVE validator_loop(_, _, _)
validator_loop(conf, c, e) ==
    IF c > Len(conf) THEN [ok |-> TRUE, printed |-> <<>>]
    ELSE IF e > Len(get_expected_config_names) THEN validator_loop(conf, c + 1, 1)
    ELSE LET msg == check_entry(conf[c].key, conf[c].value, get_expected_config_names[e])
         IN  IF msg # <<>> THEN [ok |-> FALSE, printed |-> msg]
             ELSE validator_loop(conf, c, e + 1)

config_validator(conf) == validator_loop(conf, 1, 1)

(***************************************************************************)
(* render_table.                                                           *)
(***************************************************************************)
\* the cell lookup raises KeyError when the backend has no "state" or a
\* state that is not a key of get_known_states
cell_raises(backend) ==
    \/ "state" \notin DOMAIN backend
    \/ backend.state \notin DOMAIN get_known_states

cell_value(backend) ==
    IF "comment" \in DOMAIN backend
    THEN get_known_states[backend.state] \o <<" ">> \o backend.comment
    ELSE get_known_states[backend.state]

\* variant of backends_column that lists the labels in reverse order
backends_column_reversed ==
    <<AcceleratorBackend>> \o
    Reverse([i \in DOMAIN get_expected_config_entries |->
                get_expected_config_entries[i].representation])

backends_column ==
    <<AcceleratorBackend>> \o
    [i \in DOMAIN get_expected_config_entries |-> get_expected_config_entries[i].representation]

\* one list per compiler: its name, then one cell per VALUE of its mapping,
\* in the mapping's own order
compiler_column(compiler_name, compiler_conf) ==
    <<compiler_name>> \o [k \in DOMAIN compiler_conf |-> cell_value(compiler_conf[k].value)]

\* table[column][row]
build_table(conf) ==
    <<backends_column>> \o
    [c \in DOMAIN conf |-> compiler_column(conf[c].key, conf[c].value)]

RECURSIVE broadest(_, _)
broadest(col, r) == IF r = 0 THEN 0 ELSE max(broadest(col, r - 1), Len(col[r]))

column_sizes(table) == [c \in DOMAIN table |-> broadest(table[c], Len(table[c]))]

RECURSIVE row_cells(_, _, _, _)
row_cells(table, sizes, r, c) ==
    IF c = 0 THEN <<>>
    ELSE row_cells(table, sizes, r, c - 1)
         \o <<" ">> \o Ljust(table[c][r], sizes[c]) \o <<" ", "|">>

render_row(table, sizes, r) == <<"|">> \o row_cells(table, sizes, r, Len(table)) \o <<"\n">>

RECURSIVE rule_cells(_, _)
rule_cells(sizes, c) ==
    IF c = 0 THEN <<>>
    ELSE rule_cells(sizes, c - 1) \o Repeat("-", sizes[c] + 2) \o <<"|">>

render_rule(sizes) == <<"|">> \o rule_cells(sizes, Len(sizes)) \o <<"\n">>

RECURSIVE render_body(_, _, _)
render_body(table, sizes, r) ==
    IF r < 2 THEN <<>>
    ELSE render_body(table, sizes, r - 1) \o render_row(table, sizes, r)

\* variant of render_table whose body loop runs over range(1, len(table))
render_table_rows_per_compiler(conf) ==
    IF \E c \in DOMAIN conf : \E k \in DOMAIN conf[c].value : cell_raises(conf[c].value[k].value)
    THEN [raised |-> "KeyError", value |-> <<>>]
    ELSE LET table == build_table(conf)
             sizes == column_sizes(table)
         IN  [raised |-> "",
              value  |-> render_row(table, sizes, 1)
                         \o render_rule(sizes)
                         \o render_body(table, sizes, Len(table))]

\* [raised, value]: the exception that leaves render_table, or "" and the
\* returned markdown string
render_table(conf) ==
    IF \E c \in DOMAIN conf : \E k \in DOMAIN conf[c].value : cell_raises(conf[c].value[k].value)
    THEN [raised |-> "KeyError", value |-> <<>>]
    ELSE LET table == build_table(conf)
             sizes == column_sizes(table)
         IN  IF \E c \in DOMAIN table : Len(table[c]) < Len(table[1])
             THEN [raised |-> "IndexError", value |-> <<>>]
             ELSE [raised |-> "",
                   value  |-> render_row(table, sizes, 1)
                              \o render_rule(sizes)
                              \o render_body(table, sizes, Len(table[1]))]

(***************************************************************************)
(* Inputs of a run: the parsed configuration file, the command line and    *)
(* the README.                                                             *)
(***************************************************************************)
EmptyDict == [k \in {} |-> <<>>]

CompilerNames ==
    << <<"g","c","c">>,
       <<"c","l","a","n","g"," ","1","7">>,
       <<"i","c","p","x">>,
       <<"n","v","c","c"," ","1","2">> >>

CommentText == <<"p","a","r","t","i","a","l">>

LongComment ==
    <<"o","n","l","y"," ","w","i","t","h"," ","t","h","e"," ","n","e","w","e","s","t"," ","r","u","n","t","i","m","e">>

Heading ==
    <<"#","#"," ","S","u","p","p","o","r","t","e","d"," ","C","o","m","p","i","l","e","r","s">>

NumEntries == Len(get_expected_config_entries)

Mixed == [i \in 1..NumEntries |-> <<"yes", "no", "none">>[((i - 1) % 3) + 1]]

AllYes == [i \in 1..NumEntries |-> "yes"]

AllNone == [i \in 1..NumEntries |-> "none"]

\* a compiler mapping holding the nine expected keys in declaration order
BaseEntry(pattern) ==
    [i \in 1..NumEntries |->
        [key |-> get_expected_config_names[i], value |-> [state |-> pattern[i]]]]

Variants == {"ok", "comment", "nostate", "badstate", "removed"}

VariantValue(v, state) ==
    CASE v = "ok"       -> [state |-> state]
      [] v = "comment"  -> [state |-> state, comment |-> CommentText]
      [] v = "nostate"  -> [comment |-> CommentText]
      [] v = "badstate" -> [state |-> "maybe"]
      [] OTHER          -> EmptyDict

RemoveAt(s, i) ==
    IF i \in DOMAIN s THEN SubSeq(s, 1, i - 1) \o SubSeq(s, i + 1, Len(s)) ELSE s

InsertAfter(s, i, x) == SubSeq(s, 1, i) \o <<x>> \o SubSeq(s, i + 1, Len(s))

SwapItems(s, i, j) == [k \in DOMAIN s |-> IF k = i THEN s[j] ELSE IF k = j THEN s[i] ELSE s[k]]

\* the serial (1) and tbb (5) entries varied independently
Vary(pattern, v1, v5) ==
    LET set(s, i, v) == [s EXCEPT ![i].value = VariantValue(v, pattern[i])]
        a == set(set(BaseEntry(pattern), 1, v1), 5, v5)
        b == IF v5 = "removed" THEN RemoveAt(a, 5) ELSE a
    IN  IF v1 = "removed" THEN RemoveAt(b, 1) ELSE b

ExtraValues ==
    { [state |-> "yes", comment |-> LongComment],
      [state |-> "no"],
      [state |-> "maybe"],
      [comment |-> CommentText] }

CompilerConfs ==
    {Vary(Mixed, v1, v5) : v1 \in Variants, v5 \in Variants}
    \cup {SwapItems(BaseEntry(Mixed), 1, 5), Reverse(Vary(Mixed, "ok", "comment"))}
    \cup {InsertAfter(BaseEntry(Mixed), i, [key |-> "extra", value |-> x]) :
              i \in {0, NumEntries}, x \in ExtraValues}
    \cup {BaseEntry(AllYes), BaseEntry(AllNone)}

RestConfs ==
    { BaseEntry(AllNone),
      Vary(Mixed, "comment", "removed"),
      InsertAfter(BaseEntry(AllYes), NumEntries,
                  [key |-> "extra", value |-> [state |-> "yes", comment |-> LongComment]]) }

RECURSIVE ConfigsOfSize(_)
ConfigsOfSize(n) ==
    IF n = 0 THEN {<<>>}
    ELSE {Append(c, [key |-> CompilerNames[n], value |-> cc]) :
              c \in ConfigsOfSize(n - 1),
              cc \in (IF n = 1 THEN CompilerConfs ELSE RestConfs)}

Configs == UNION {ConfigsOfSize(n) : n \in 0..MaxCompilers}

Upto(n) == [i \in 1..n |-> i]

\* which pieces of the rendered table a document holds, in which order:
\* k > 0 is piece k, 0 an unrelated heading, -k piece k behind a leading blank
Selections(n) ==
    { <<>>,
      Upto(n - 1),
      Upto(n),
      <<0>> \o Reverse(Upto(n)) \o <<0>>,
      RemoveAt(Upto(n), 1),
      RemoveAt(Upto(n), 6),
      RemoveAt(Upto(n - 1), 2),
      Upto(n) \o <<3, 3>>,
      <<-1>> \o RemoveAt(Upto(n), 1) }

Trailings == {Repeat(" ", k) : k \in 0..MaxTrailing} \cup {<<"\t", "\r">>}

DocLine(pieces, k, trail) ==
    (IF k = 0 THEN Heading
     ELSE IF k < 0 THEN <<" ">> \o pieces[-k]
     ELSE pieces[k]) \o trail \o <<"\n">>

\* README files: the lines as read from the file, each with its terminator
ReadmeFiles(conf) ==
    LET r == render_table(conf)
        pieces == Split(IF r.raised = "" THEN r.value ELSE render_table(<<>>).value, "\n")
    IN  { [i \in DOMAIN sel |-> DocLine(pieces, sel[i], trail)] :
              sel \in Selections(Len(pieces)), trail \in Trailings }

(***************************************************************************)
(* The script's main block as a state machine.                             *)
(***************************************************************************)
VARIABLES
    config_exists,   \* os.path.exists(config_path)
    config_file,     \* what json.load returns for the file
    verify,          \* args.verify
    readme_exists,   \* os.path.exists(readme_path)
    readme_file,     \* the lines of the README file
    pc,              \* position in the main block
    config,          \* the loaded configuration
    markdown_table,  \* the rendered table
    readme,          \* the stripped README lines
    line_num,        \* loop counter of the verification loop
    missing_line,    \* flag of the verification loop
    stdout,          \* everything printed, in order
    traceback,       \* uncaught exception, "" if none
    exit_code        \* -1 while running

inputs == <<config_exists, config_file, verify, readme_exists, readme_file>>

vars == <<config_exists, config_file, verify, readme_exists, readme_file, pc, config,
          markdown_table, readme, line_num, missing_line, stdout, traceback, exit_code>>

Init ==
    /\ config_exists \in BOOLEAN
    /\ config_file \in Configs
    /\ verify \in BOOLEAN
    /\ readme_exists \in BOOLEAN
    /\ readme_file \in ReadmeFiles(config_file)
    /\ config_exists = FALSE => config_file = <<>>
    /\ (~verify \/ ~readme_exists \/ ~config_exists) => readme_file = <<>>
    /\ pc = "check_config"
    /\ config = <<>>
    /\ markdown_table = <<>>
    /\ readme = <<>>
    /\ line_num = 0
    /\ missing_line = FALSE
    /\ stdout = <<>>
    /\ traceback = ""
    /\ exit_code = -1

Exit(code) == pc' = "done" /\ exit_code' = code

\* lines 171-173
CheckConfigPath ==
    /\ pc = "check_config"
    /\ IF ~config_exists
       THEN /\ stdout' = Append(stdout, Red("does not exist", <<"config_path">>))
            /\ Exit(1)
       ELSE /\ pc' = "load"
            /\ UNCHANGED <<stdout, exit_code>>
    /\ UNCHANGED <<inputs, config, markdown_table, readme, line_num, missing_line, traceback>>

\* lines 175-176
LoadConfig ==
    /\ pc = "load"
    /\ config' = config_file
    /\ pc' = "validate"
    /\ UNCHANGED <<inputs, markdown_table, readme, line_num, missing_line, stdout,
                   traceback, exit_code>>

\* lines 178-179
Validate ==
    /\ pc = "validate"
    /\ LET r == config_validator(config)
       IN  /\ stdout' = stdout \o r.printed
           /\ IF ~r.ok THEN Exit(1)
              ELSE pc' = "render" /\ UNCHANGED exit_code
    /\ UNCHANGED <<inputs, config, markdown_table, readme, line_num, missing_line, traceback>>

\* line 181; an exception leaving render_table ends the interpreter with
\* a traceback and status 1
Render ==
    /\ pc = "render"
    /\ LET r == render_table(config)
       IN  IF r.raised # ""
           THEN /\ traceback' = r.raised
                /\ Exit(1)
                /\ UNCHANGED markdown_table
           ELSE /\ markdown_table' = r.value
                /\ pc' = "mode"
                /\ UNCHANGED <<traceback, exit_code>>
    /\ UNCHANGED <<inputs, config, readme, line_num, missing_line, stdout>>

\* lines 183-184; the script then ends normally
PrintTable ==
    /\ pc = "mode"
    /\ ~verify
    /\ stdout' = Append(stdout, Plain("table", <<markdown_table \o <<"\n">> >>))
    /\ Exit(0)
    /\ UNCHANGED <<inputs, config, markdown_table, readme, line_num, missing_line, traceback>>

\* lines 186-189
CheckReadmePath ==
    /\ pc = "mode"
    /\ verify
    /\ IF ~readme_exists
       THEN /\ stdout' = Append(stdout, Red("does not exist", <<"readme_path">>))
            /\ Exit(1)
       ELSE /\ pc' = "read_readme"
            /\ UNCHANGED <<stdout, exit_code>>
    /\ UNCHANGED <<inputs, config, markdown_table, readme, line_num, missing_line, traceback>>

\* lines 191-194
ReadReadme ==
    /\ pc = "read_readme"
    /\ readme' = [i \in DOMAIN readme_file |-> Rstrip(readme_file[i])]
    /\ missing_line' = FALSE
    /\ line_num' = 0
    /\ pc' = "verify_loop"
    /\ UNCHANGED <<inputs, config, markdown_table, stdout, traceback, exit_code>>

\* variant of VerifyLine that never looks up an empty markdown_line
VerifyLine_skips_blank ==
    /\ pc = "verify_loop"
    /\ line_num < Len(Split(markdown_table, "\n"))
    /\ LET markdown_line == Split(markdown_table, "\n")[line_num + 1]
       IN  IF markdown_line # <<>> /\ markdown_line \notin Range(readme)
           THEN /\ stdout' = stdout
                       \o (IF ~missing_line
                           THEN <<Red("could not find the following lines", <<"readme_path">>)>>
                           ELSE <<>>)
                       \o <<Plain("line", <<line_num, markdown_line>>)>>
                /\ missing_line' = TRUE
           ELSE UNCHANGED <<stdout, missing_line>>
    /\ line_num' = line_num + 1
    /\ UNCHANGED <<inputs, pc, config, markdown_table, readme, traceback, exit_code>>

\* variant of VerifyLine that reports only the first missing line
VerifyLine_first_only ==
    /\ pc = "verify_loop"
    /\ line_num < Len(Split(markdown_table, "\n"))
    /\ LET markdown_line == Split(markdown_table, "\n")[line_num + 1]
       IN  IF markdown_line \notin Range(readme) /\ ~missing_line
           THEN /\ stdout' = stdout
                       \o <<Red("could not find the following lines", <<"readme_path">>)>>
                       \o <<Plain("line", <<line_num, markdown_line>>)>>
                /\ missing_line' = TRUE
           ELSE UNCHANGED <<stdout, missing_line>>
    /\ line_num' = line_num + 1
    /\ UNCHANGED <<inputs, pc, config, markdown_table, readme, traceback, exit_code>>

\* lines 196-206: one iteration of the loop
VerifyLine ==
    /\ pc = "verify_loop"
    /\ line_num < Len(Split(markdown_table, "\n"))
    /\ LET markdown_line == Split(markdown_table, "\n")[line_num + 1]
       IN  IF markdown_line \notin Range(readme)
           THEN /\ stdout' = stdout
                       \o (IF ~missing_line
                           THEN <<Red("could not find the following lines", <<"readme_path">>)>>
                           ELSE <<>>)
                       \o <<Plain("line", <<line_num, markdown_line>>)>>
                /\ missing_line' = TRUE
           ELSE UNCHANGED <<stdout, missing_line>>
    /\ line_num' = line_num + 1
    /\ UNCHANGED <<inputs, pc, config, markdown_table, readme, traceback, exit_code>>

\* lines 208-226
Finish ==
    /\ pc = "verify_loop"
    /\ line_num = Len(Split(markdown_table, "\n"))
    /\ IF ~missing_line
       THEN /\ Exit(0)
            /\ UNCHANGED stdout
       ELSE /\ stdout' = Append(stdout, Plain("guidance", <<>>))
            /\ Exit(1)
    /\ UNCHANGED <<inputs, config, markdown_table, readme, line_num, missing_line, traceback>>

Next ==
    \/ CheckConfigPath
    \/ LoadConfig
    \/ Validate
    \/ Render
    \/ PrintTable
    \/ CheckReadmePath
    \/ ReadReadme
    \/ VerifyLine
    \/ Finish

Spec == Init /\ [][Next]_vars

(***************************************************************************)
(* Reading the program's observable results.                               *)
(***************************************************************************)
\* render_table has returned a string (it is never empty)
AfterRender == markdown_table # <<>>

\* the call of render_table has ended, by a return or by an exception
RenderActed == AfterRender \/ traceback # ""

\* config_validator has returned
ValidatorRan == config_exists /\ pc \notin {"check_config", "load", "validate"}

\* the pieces of the rendered table between newlines
Pieces == Split(markdown_table, "\n")

\* the text between the pipes of one rendered line, padding included
RawCells(line) ==
    LET q == Split(line, "|") IN [k \in 1..(Len(q) - 2) |-> q[k + 1]]

\* the cells of one rendered line without the blank after the pipe and
\* without the padding
CellsOf(line) ==
    LET raw == RawCells(line)
    IN  [k \in DOMAIN raw |-> Rstrip(SubSeq(raw[k], 2, Len(raw[k])))]

\* the (line_num, markdown_line) pairs printed by the verification loop
ReportedLines ==
    LET IsLine(m) == m.kind = "line"
        printed == SelectSeq(stdout, IsLine)
    IN  [i \in DOMAIN printed |-> printed[i].args]

ValidatorKinds == {"misses entry", "misses state entry", "unknown state"}

ValidatorMessages ==
    LET IsValidatorMessage(m) == m.kind \in ValidatorKinds
    IN  SelectSeq(stdout, IsValidatorMessage)

\* the (compiler, field) pair satisfies the schema
WellFormed(compiler_conf, e) ==
    /\ \E i \in DOMAIN compiler_conf : compiler_conf[i].key = e
    /\ \A i \in DOMAIN compiler_conf : compiler_conf[i].key = e =>
          /\ "state" \in DOMAIN compiler_conf[i].value
          /\ compiler_conf[i].value.state \in {"yes", "no", "none"}

Offending(conf) ==
    {p \in (1..Len(conf)) \X (1..NumEntries) :
        ~WellFormed(conf[p[1]].value, get_expected_config_entries[p[2]].name)}

FirstOffending(conf) ==
    CHOOSE p \in Offending(conf) :
        \A q \in Offending(conf) : p[1] < q[1] \/ (p[1] = q[1] /\ p[2] <= q[2])

\* the report the schema rules ask for: a missing field before a missing
\* state before an unknown state
ExpectedReport(conf, p) ==
    LET compiler_conf == conf[p[1]].value
        e == get_expected_config_entries[p[2]].name
        present == {i \in DOMAIN compiler_conf : compiler_conf[i].key = e}
        backend == compiler_conf[CHOOSE i \in present : TRUE].value
    IN  IF present = {}
        THEN [red |-> TRUE, kind |-> "misses entry", args |-> <<conf[p[1]].key, e>>]
        ELSE IF "state" \notin DOMAIN backend
        THEN [red |-> TRUE, kind |-> "misses state entry", args |-> <<conf[p[1]].key, e>>]
        ELSE [red |-> TRUE, kind |-> "unknown state",
              args |-> <<conf[p[1]].key, e, backend.state>>]

(***************************************************************************)
(* C1                                                                      *)
(***************************************************************************)
\* C1 as stated: the table rendered from an accepted configuration with n
\* compilers consists of exactly n+2 lines, each terminated by a newline.
C1_LinesPerCompiler ==
    AfterRender =>
        /\ Pieces[Len(Pieces)] = <<>>
        /\ Len(Pieces) - 1 = Len(config) + 2

\* C1 amended: the table rendered from an accepted configuration with n
\* compilers consists of exactly 11 lines (one header, one separator, one
\* body row per expected backend field), each terminated by a newline,
\* whatever n is.
C1_LinesPerBackend ==
    AfterRender =>
        /\ Pieces[Len(Pieces)] = <<>>
        /\ Len(Pieces) - 1 = NumEntries + 2
        /\ Len(Pieces) - 1 = 11

C1_Witness ==
    /\ pc = "mode"
    /\ AfterRender
    /\ Len(config) = 2
    /\ Len(Pieces) - 1 = 11

(***************************************************************************)
(* C2                                                                      *)
(***************************************************************************)
\* C2 as stated: the header row holds "Accelerator Back-end" followed by
\* the nine backend labels in declaration order, and the first cell of the
\* i-th body row is the name of the i-th compiler.
C2_HeaderOfBackends ==
    AfterRender =>
        /\ CellsOf(Pieces[1]) =
               <<AcceleratorBackend>> \o
               [i \in 1..NumEntries |-> get_expected_config_entries[i].representation]
        /\ \A i \in 1..Len(config) :
               /\ i + 2 < Len(Pieces)
               /\ CellsOf(Pieces[i + 2])[1] = config[i].key

\* C2 amended: the header row holds "Accelerator Back-end" followed by the
\* compiler names in the configuration's insertion order, and the first
\* cell of the i-th body row is the label of the i-th backend field in
\* declaration order.
C2_HeaderOfCompilers ==
    AfterRender =>
        /\ CellsOf(Pieces[1]) =
               <<AcceleratorBackend>> \o [i \in 1..Len(config) |-> config[i].key]
        /\ \A i \in 1..NumEntries :
               /\ i + 2 < Len(Pieces)
               /\ CellsOf(Pieces[i + 2])[1] = get_expected_config_entries[i].representation

C2_Witness ==
    /\ pc = "mode"
    /\ Len(config) = 2
    /\ Len(CellsOf(Pieces[1])) = 3
    /\ CellsOf(Pieces[1])[3] = CompilerNames[2]
    /\ CellsOf(Pieces[11])[1] = <<"S","Y","C","L">>

(***************************************************************************)
(* C8                                                                      *)
(***************************************************************************)
\* C8: config_validator accepts (the run goes on to render_table, nothing
\* is reported) iff every compiler holds each of the nine fields with a
\* state among yes/no/none; otherwise exactly one error is reported, for
\* the first offending (compiler, field) pair in insertion order then
\* field order, a missing field before a missing state before an unknown
\* state, naming the compiler, the field and the bad value.
C8_Validator ==
    ValidatorRan =>
        IF Offending(config) = {}
        THEN /\ ValidatorMessages = <<>>
             /\ pc = "done" => RenderActed
        ELSE /\ pc = "done"
             /\ exit_code = 1
             /\ ~RenderActed
             /\ stdout = <<ExpectedReport(config, FirstOffending(config))>>

C8_Witness ==
    /\ ValidatorRan
    /\ Len(config) = 2
    /\ Cardinality(Offending(config)) >= 3
    /\ \E p \in Offending(config) : p[1] = 2
    /\ stdout = <<Red("unknown state", <<CompilerNames[1], "serial", "maybe">>)>>

(***************************************************************************)
(* C3                                                                      *)
(***************************************************************************)
\* what the schema asks to be shown for one backend status
ExpectedCell(backend) ==
    IF "comment" \in DOMAIN backend
    THEN get_known_states[backend.state] \o <<" ">> \o backend.comment
    ELSE get_known_states[backend.state]

\* C3: for every compiler c and every expected field f, the cell rendered
\* for c in the row labelled with f is the glyph of c[f].state, followed by
\* a blank and the comment iff c[f] has one, whatever the order of the keys
\* of c's mapping.
C3_CellShowsItsField ==
    AfterRender =>
        \A c \in 1..Len(config) : \A f \in 1..NumEntries :
            CellsOf(Pieces[f + 2])[c + 1] =
                ExpectedCell(Get(config[c].value, get_expected_config_entries[f].name))

(***************************************************************************)
(* C4                                                                      *)
(***************************************************************************)
\* the configuration without the keys that are not expected fields
WithoutExtras(conf) ==
    LET Expected(item) == item.key \in Range(get_expected_config_names)
    IN  [c \in DOMAIN conf |-> [key |-> conf[c].key,
                                value |-> SelectSeq(conf[c].value, Expected)]]

\* C4: additional keys in a compiler's mapping are ignored: an accepted
\* configuration is rendered without an error and to the same table as the
\* configuration without its additional keys.
C4_ExtrasIgnored ==
    RenderActed =>
        /\ traceback = ""
        /\ markdown_table = render_table(WithoutExtras(config)).value

(***************************************************************************)
(* C5                                                                      *)
(***************************************************************************)
SetMax(S) == CHOOSE m \in S : \A x \in S : x <= m

\* C5: every column is as wide as the longest cell emitted in it (header
\* and body cells); every emitted cell is left-justified and padded to that
\* width; the separator has width+2 dashes per column; all lines have the
\* same length.
C5_Padding ==
    AfterRender =>
        LET rows == {1} \cup 3..(Len(Pieces) - 1)
            columns == 1..Len(RawCells(Pieces[1]))
            width(k) == Len(RawCells(Pieces[1])[k]) - 2
        IN  /\ \A k \in columns :
                   /\ width(k) = SetMax({Len(CellsOf(Pieces[r])[k]) : r \in rows})
                   /\ \A r \in rows :
                          RawCells(Pieces[r])[k] =
                              <<" ">> \o CellsOf(Pieces[r])[k]
                              \o Repeat(" ", width(k) - Len(CellsOf(Pieces[r])[k]))
                              \o <<" ">>
                   /\ RawCells(Pieces[2])[k] = Repeat("-", width(k) + 2)
            /\ \A r \in 1..(Len(Pieces) - 1) : Len(Pieces[r]) = Len(Pieces[1])

(***************************************************************************)
(* C6                                                                      *)
(***************************************************************************)
\* the document made of the rendered rows, each with its newline
ExactDocument == [i \in 1..(Len(Pieces) - 1) |-> Pieces[i] \o <<"\n">>]

\* C6: verifying against a document whose lines are exactly the lines of
\* the rendered table reports no missing line and exits with status 0.
C6_RoundTrip ==
    (pc = "done" /\ verify /\ readme_exists /\ AfterRender /\ readme_file = ExactDocument) =>
        /\ ReportedLines = <<>>
        /\ exit_code = 0

(***************************************************************************)
(* C7                                                                      *)
(***************************************************************************)
ZeroCompilers == ValidatorRan /\ config = <<>>

\* d is l followed by nothing but whitespace, and l does not end in whitespace
StripsTo(d, l) ==
    /\ Len(l) <= Len(d)
    /\ SubSeq(d, 1, Len(l)) = l
    /\ \A j \in (Len(l) + 1)..Len(d) : d[j] \in Whitespace
    /\ Len(l) > 0 => l[Len(l)] \notin Whitespace

InDocument(l) == \E d \in DOMAIN readme_file : StripsTo(readme_file[d], l)

\* C7 as stated: a configuration with zero compilers is accepted, renders
\* to exactly two lines, and its verification succeeds against any
\* document, the empty one included.
C7_TwoLines ==
    ZeroCompilers =>
        /\ ValidatorMessages = <<>>
        /\ pc = "done" => RenderActed
        /\ AfterRender => Len(Pieces) - 1 = 2
        /\ (pc = "done" /\ verify /\ readme_exists) =>
               (exit_code = 0 /\ ReportedLines = <<>>)

\* C7 amended: a configuration with zero compilers is accepted and renders
\* to exactly eleven lines: the header holding only "Accelerator Back-end",
\* the separator, and nine rows holding only a backend label; its
\* verification succeeds exactly when each of these lines and an empty
\* line occur among the stripped lines of the document, so it fails,
\* reporting all twelve, against the empty document.
C7_ElevenLines ==
    ZeroCompilers =>
        /\ ValidatorMessages = <<>>
        /\ pc = "done" => RenderActed
        /\ traceback = ""
        /\ AfterRender =>
               /\ Len(Pieces) - 1 = 11
               /\ CellsOf(Pieces[1]) = <<AcceleratorBackend>>
               /\ \A i \in 1..NumEntries :
                      CellsOf(Pieces[i + 2]) = <<get_expected_config_entries[i].representation>>
        /\ (pc = "done" /\ verify /\ readme_exists) =>
               /\ exit_code = 0 <=> \A i \in DOMAIN Pieces : InDocument(Pieces[i])
               /\ exit_code \in {0, 1}
               /\ readme_file = <<>> =>
                      /\ exit_code = 1
                      /\ ReportedLines = [i \in DOMAIN Pieces |-> <<i - 1, Pieces[i]>>]

C7_Witness ==
    /\ ZeroCompilers
    /\ pc = "done"
    /\ verify
    /\ readme_exists
    /\ exit_code = 1
    /\ Len(readme_file) = 11
    /\ ReportedLines = << <<11, <<>> >> >>

(***************************************************************************)
(* C9                                                                      *)
(***************************************************************************)
\* the verification loop has been entered
Verifying == verify /\ readme_exists /\ AfterRender /\ pc \in {"verify_loop", "done"}

\* the zero-based indices below n of the pieces absent from the document
MissingBelow(n) == {i \in 0..(n - 1) : ~InDocument(Pieces[i + 1])}

\* the elements of a set of integers in increasing order
RECURSIVE Ascending(_)
Ascending(S) ==
    IF S = {} THEN <<>>
    ELSE LET m == CHOOSE x \in S : \A y \in S : x <= y
         IN  <<m>> \o Ascending(S \ {m})

\* C9: in verify mode the reported lines are exactly the pairs (i, line_i),
\* in increasing i, of the pieces of the rendered table split on newline
\* that equal no stripped document line; the exit status is 0 iff there is
\* none and 1 otherwise; a README lacking exactly one piece yields exactly
\* one reported line.
C9_ReportsAllMissing ==
    Verifying =>
        LET n == IF pc = "done" THEN Len(Pieces) ELSE line_num
            missing == Ascending(MissingBelow(n))
        IN  /\ ReportedLines = [k \in DOMAIN missing |-> <<missing[k], Pieces[missing[k] + 1]>>]
            /\ pc = "done" => exit_code = (IF MissingBelow(n) = {} THEN 0 ELSE 1)
            /\ (pc = "done" /\ Cardinality(MissingBelow(n)) = 1) => Len(ReportedLines) = 1

C9_Witness ==
    /\ Verifying
    /\ pc = "done"
    /\ Len(config) = 2
    /\ Len(readme_file) = 11
    /\ MissingBelow(Len(Pieces)) = {5}
    /\ Len(ReportedLines) = 1
    /\ ReportedLines[1][1] = 5
    /\ exit_code = 1

(***************************************************************************)
(* C10                                                                     *)
(***************************************************************************)
TablePrinted == \E i \in DOMAIN stdout : stdout[i].kind = "table"

ConfigValid == Offending(config_file) = {}

\* verify mode found the README and some piece of the table is not in it
LineMissing ==
    /\ verify
    /\ readme_exists
    /\ render_table(config_file).raised = ""
    /\ \E l \in Range(Split(render_table(config_file).value, "\n")) : ~InDocument(l)

\* C10: render_table is never reached after a missing configuration file
\* or a validation failure; the table is printed only in default mode with
\* a valid configuration; the exit status is 1 exactly when the
\* configuration file is missing, validation fails, or (verify mode) the
\* README is missing or a line is missing, and 0 otherwise; with an invalid
\* configuration and a missing README the validation failure is reported.
C10_ExitStatus ==
    /\ (pc = "render" \/ RenderActed) => (config_exists /\ ConfigValid)
    /\ TablePrinted => (~verify /\ config_exists /\ ConfigValid)
    /\ pc = "done" =>
           exit_code = (IF \/ ~config_exists
                           \/ ~ConfigValid
                           \/ (verify /\ ~readme_exists)
                           \/ LineMissing
                        THEN 1 ELSE 0)
    /\ (pc = "done" /\ config_exists /\ ~ConfigValid /\ verify /\ ~readme_exists) =>
           (Len(stdout) = 1 /\ stdout[1].kind \in ValidatorKinds)

====
